---- MODULE Spec2Model ----
(***************************************************************************)
(* Model of SquareWaveFitTest (src/SquareWaveFitTest.C): a template fit of *)
(* noisy binary samples to square waves by exhaustive search.              *)
(*                                                                         *)
(* Numbers.  The program computes in IEEE single (float) and double        *)
(* precision, and its results depend on the rounding (badParams compares a *)
(* float with a double quotient; squarewave rounds x-phase and val+lambda).*)
(* A float is modelled by the integer v that stands for v * 2^-30, a       *)
(* double by the pair <<hi, lo>> that stands for hi * 2^-30 + lo * 2^-60   *)
(* with 0 <= lo < 2^30.  Every float the program forms from the values the *)
(* model feeds it has magnitude 0, or at least 2^-7 and below 2, or is an  *)
(* exact difference or remainder of such values, so it lies on the 2^-30   *)
(* grid; the doubles lie on the 2^-60 grid for the same reason.  Rounding  *)
(* is round-to-nearest, ties to even, to 24 resp. 53 significant bits.     *)
(***************************************************************************)
EXTENDS Integers, Sequences, FiniteSets

VARIABLES
  _bitmodels,  \* bsvec _bitmodels: the template bit vectors
  _lvec,       \* wavelength of each template (float)
  _p0vec,      \* phase of each template (float)
  _fvec,       \* width of each template (float)
  _rand,       \* TRandom3 _rand: the stream and the number of draws made
  hists,       \* the histograms: the values filled since the last Reset
  pc,          \* where the running test() call stands; "idle" when none
  frame,       \* arguments and locals of the running test() call
  ret,         \* <<v>>: the last finished test() call returned v; <<>>: none has
  ncalls       \* the number of test() calls made

vars == <<_bitmodels, _lvec, _p0vec, _fvec, _rand, hists, pc, frame, ret, ncalls>>

nbits == 36

\* the value 1.0 in float units
One == 2^30

\* the value 0.5 in float units (the literal of badParams)
Half == 2^29

Abs(v) == IF v < 0 THEN -v ELSE v

\* The unit in the last place, in units of the grid, of a 24-bit significand
\* whose integer part is a: the least power of two u >= from with a < 2^24 * u.
RECURSIVE Ulp(_, _)
Ulp(a, from) == IF a \div from < 2^24 THEN from ELSE Ulp(a, 2 * from)

\* a + num/den (0 <= num < den) rounded to a multiple of u, ties to even.
RoundNearestEven(a, num, den, u) ==
  LET q == a \div u
      twice == 2 * ((a % u) * den + num)
      up == twice > u * den \/ (twice = u * den /\ q % 2 = 1)
  IN  (IF up THEN q + 1 ELSE q) * u

\* The float nearest an integer number v of grid units (a float operation's
\* exact result).
RoundF(v) ==
  LET m == RoundNearestEven(Abs(v), 0, 1, Ulp(Abs(v), 1))
  IN  IF v < 0 THEN -m ELSE m

\* float(n) / float(d) for small integers n, d > 0: the float nearest n/d.
\* 2^30 * n / d is formed as n * (2^30 div d) + n * (2^30 mod d) / d.
FDiv(n, d) ==
  LET a == Abs(n)
      whole == a * (One \div d) + (a * (One % d)) \div d
      num == (a * (One % d)) % d
      m == RoundNearestEven(whole, num, d, Ulp(whole, 1))
  IN  IF n < 0 THEN -m ELSE m

FSub(a, b) == RoundF(a - b)

FAdd(a, b) == RoundF(a + b)

\* C fmod for b > 0: the exact remainder, with the sign of a.
Fmod(a, b) == IF a < 0 THEN -((-a) % b) ELSE a % b

\* float -> double conversion is exact.
FtoD(v) == <<v, 0>>

DLt(a, b) == a[1] < b[1] \/ (a[1] = b[1] /\ a[2] < b[2])

DNeg(a) == IF a[2] = 0 THEN <<-a[1], 0>> ELSE <<-a[1] - 1, One - a[2]>>

\* <<hi, lo>> + num/den * 2^-60, hi >= 0, rounded to 53 significant bits.
\* Below 2^-7 (hi < 2^23) the 2^-60 grid is coarser than the double: the
\* values met there are exact differences and stay as they are.
DRoundPos(hi, lo, num, den) ==
  IF hi < 2^23 THEN <<hi, lo>>
  ELSE LET l == RoundNearestEven(lo, num, den, 2 * Ulp(hi, 1))
       IN  IF l = One THEN <<hi + 1, 0>> ELSE <<hi, l>>

\* The double nearest n/d for small integers n >= 0, d > 0 (a double
\* division of two exactly represented operands whose quotient is n/d).
DDiv(n, d) ==
  LET hi == n * (One \div d) + (n * (One % d)) \div d
      r0 == (n * (One % d)) % d
      l1 == (r0 * 2^15) \div d
      r1 == (r0 * 2^15) % d
      l2 == (r1 * 2^15) \div d
      r2 == (r1 * 2^15) % d
  IN  DRoundPos(hi, l1 * 2^15 + l2, r2, d)

\* double a - double b.
DSub(a, b) ==
  LET borrow == IF a[2] < b[2] THEN 1 ELSE 0
      hi == a[1] - b[1] - borrow
      lo == a[2] - b[2] + borrow * One
      neg == DNeg(<<hi, lo>>)
  IN  IF hi >= 0 THEN DRoundPos(hi, lo, 0, 1)
      ELSE DNeg(DRoundPos(neg[1], neg[2], 0, 1))

\* (float) of a double >= 0: rounded to 24 significant bits.
DtoF(a) ==
  LET u == Ulp(a[1], 1)
      q == a[1] \div u
      c == 2 * (a[1] % u) + (2 * a[2]) \div One
      f == (2 * a[2]) % One
      up == c > u \/ (c = u /\ f > 0) \/ (c = u /\ f = 0 /\ q % 2 = 1)
  IN  (IF up THEN q + 1 ELSE q) * u

\* bool squarewave(float lambda, float phase, float width, float x)
squarewave(lambda, phase, width, x) ==
  LET val0 == Fmod(FSub(x, phase), lambda)
      val == IF val0 < 0 THEN FAdd(val0, lambda) ELSE val0
  IN  val >= 0 /\ val < width

\* float x = (float(ibit)+0.5)/float(nbits): a double quotient, narrowed.
SampleX(ibit) == DtoF(DDiv(2 * ibit + 1, 2 * nbits))

\* setbits: a bset is modelled by the set of the indices of its set bits.
setbits(lambda, phase, width) ==
  {ibit \in 0 .. nbits - 1 : squarewave(lambda, phase, width, SampleX(ibit))}

\* bool badParams(float lambda, float phase, float width)
badParams(lambda, phase, width) ==
  \/ DLt(FtoD(lambda), DDiv(2, nbits))
  \/ lambda > Half
  \/ phase < 0
  \/ phase > lambda
  \/ DLt(FtoD(width), DDiv(1, nbits))
  \/ DLt(DSub(FtoD(lambda), DDiv(1, nbits)), FtoD(width))

(***************************************************************************)
(* The constructor's template enumeration (lines 109-123).                 *)
(***************************************************************************)

\* the width loop run to iwidth <= ilambda-1
WidthLoopInclusive(ilambda, iphase) ==
  [iwidth \in 1 .. ilambda - 1 |-> <<ilambda, iphase, iwidth>>]

\* for(size_t iwidth=1; iwidth < ilambda-1; iwidth++): the steps pushed
WidthLoop(ilambda, iphase) ==
  [iwidth \in 1 .. ilambda - 2 |-> <<ilambda, iphase, iwidth>>]

\* the phase loop run to iphase < ilambda
RECURSIVE PhaseLoopExclusive(_, _)
PhaseLoopExclusive(ilambda, iphase) ==
  IF iphase < ilambda
  THEN WidthLoop(ilambda, iphase) \o PhaseLoopExclusive(ilambda, iphase + 1)
  ELSE <<>>

\* for(int iphase=0; iphase <= (int)ilambda; iphase++)
RECURSIVE PhaseLoop(_, _)
PhaseLoop(ilambda, iphase) ==
  IF iphase <= ilambda
  THEN WidthLoop(ilambda, iphase) \o PhaseLoop(ilambda, iphase + 1)
  ELSE <<>>

\* the wavelength loop run to ilambda <= nbits/2
RECURSIVE LambdaLoopInclusive(_)
LambdaLoopInclusive(ilambda) ==
  IF ilambda <= nbits \div 2
  THEN PhaseLoop(ilambda, 0) \o LambdaLoopInclusive(ilambda + 1)
  ELSE <<>>

\* for(size_t ilambda=2;ilambda<nbits/2;ilambda++)
RECURSIVE LambdaLoop(_)
LambdaLoop(ilambda) ==
  IF ilambda < nbits \div 2
  THEN PhaseLoop(ilambda, 0) \o LambdaLoop(ilambda + 1)
  ELSE <<>>

\* the (ilambda, iphase, iwidth) of the push_backs, in order
Steps == LambdaLoop(2)

\* float lambda = ilambda/_fnbits (and phase, width alike)
StepValue(i) == FDiv(i, nbits)

BuiltModels ==
  [k \in 1 .. Len(Steps) |->
     setbits(StepValue(Steps[k][1]), StepValue(Steps[k][2]), StepValue(Steps[k][3]))]

BuiltLambda == [k \in 1 .. Len(Steps) |-> StepValue(Steps[k][1])]

BuiltPhase == [k \in 1 .. Len(Steps) |-> StepValue(Steps[k][2])]

BuiltWidth == [k \in 1 .. Len(Steps) |-> StepValue(Steps[k][3])]

(***************************************************************************)
(* bestOverlap (lines 127-138).  Indices are those of the code (from 0);   *)
(* the sequences are indexed from 1.                                       *)
(***************************************************************************)

\* (_bitmodels[imodel]^test).count()
XorCount(a, b) == Cardinality((a \ b) \cup (b \ a))

\* the loop body with overlap <= bover
OverlapStepLastWins(test, imodel, acc) ==
  LET overlap == XorCount(_bitmodels[imodel + 1], test)
  IN  IF overlap <= acc[2] THEN <<imodel, overlap>> ELSE acc

\* the body of the for loop for imodel: <<retval, bover>> after it, from
\* the <<retval, bover>> before it
OverlapStep(test, imodel, acc) ==
  LET overlap == XorCount(_bitmodels[imodel + 1], test)
  IN  IF overlap < acc[2] THEN <<imodel, overlap>> ELSE acc

\* the iterations first .. last-1 of the for loop, in increasing order of
\* imodel.  The range is halved only to keep the evaluation shallow, and
\* the test of left, which always holds (bover <= nbits), only makes the
\* first half be evaluated before the second starts.
RECURSIVE OverlapLoop(_, _, _, _)
OverlapLoop(test, first, last, acc) ==
  IF last <= first THEN acc
  ELSE IF last = first + 1 THEN OverlapStep(test, first, acc)
  ELSE LET mid == (first + last) \div 2
           left == OverlapLoop(test, first, mid, acc)
       IN  IF left[2] <= nbits THEN OverlapLoop(test, mid, last, left) ELSE left

\* the loop started at imodel = 1
bestOverlapSkipFirst(test) == OverlapLoop(test, 1, Len(_bitmodels), <<0, nbits>>)

\* <<return value, bover>>: retval(0), bover = nbits, then the loop
bestOverlap(test) == OverlapLoop(test, 0, Len(_bitmodels), <<0, nbits>>)

(***************************************************************************)
(* setRandom (lines 140-148), one iteration of its loop at a time.         *)
(***************************************************************************)

\* _rand.Uniform(): the next value of the stream
Uniform == _rand.stream[(_rand.pos % Len(_rand.stream)) + 1]

\* the two thresholds exchanged
SetRandomBitSwapped(model, rbits, ibit, rval, eff, pur) ==
  LET on == IF ibit \in model THEN rval > pur ELSE rval < eff
  IN  IF on THEN rbits \cup {ibit} ELSE rbits \ {ibit}

\* rbits after the iteration for ibit that drew rval
SetRandomBit(model, rbits, ibit, rval, eff, pur) ==
  LET on == IF ibit \in model THEN rval < eff ELSE rval > pur
  IN  IF on THEN rbits \cup {ibit} ELSE rbits \ {ibit}

(***************************************************************************)
(* test() (lines 49-90).                                                   *)
(***************************************************************************)

NoFrame == [live |-> FALSE]

EmptyHists ==
  [hover |-> <<>>, hmod |-> <<>>, hlambda |-> <<>>, hphase |-> <<>>,
   hwidth |-> <<>>, hdur |-> 0]

\* the calls test() gets: steps of lambda, phase, width (times 1/nbits), eff, pur
Quarter == 2^28

TestParams ==
  { <<6, 0, 2, 0, 0>>,        \* legal; inverts the model unless a draw is 0
    <<3, 0, 1, One, One>>,    \* legal, the first template; keeps the model
    <<18, 9, 17, Half, Half>>,\* legal, lambda = 0.5: no such template
    <<1, 0, 1, One, One>>,    \* lambda < 2/nbits
    <<19, 0, 1, 0, 0>>,       \* lambda > 0.5
    <<6, -1, 2, 0, 0>>,       \* phase < 0
    <<6, 7, 2, Half, Half>>,  \* phase > lambda
    <<6, 0, 0, One, One>>,    \* width < 1/nbits
    <<4, 0, 3, 0, 0>> }       \* width > lambda - 1/nbits after rounding

\* The streams _rand may deliver, each repeated for ever.  The generator
\* (TRandom3) is not part of the source: a draw is any value of [0,1), the
\* range the design gives the draws, 0 included.  The values are floats, so
\* that the comparisons with eff and pur (promoted to double) are exact.
Streams == { <<Quarter, 3 * Quarter>>, <<Half, 0, 3 * Quarter>> }

\* the most trials (ntrials) a call asks for
MaxTrials == 1

\* the most test() calls made on the object
MaxCalls == 2

\* line 49: test() is entered with its arguments
TestCall(lambda, phase, width, eff, pur, ntrials) ==
  /\ pc = "idle"
  /\ ncalls < MaxCalls
  /\ frame' = [live |-> TRUE, lambda |-> lambda, phase |-> phase,
                width |-> width, eff |-> eff, pur |-> pur, ntrials |-> ntrials]
  /\ pc' = "test"
  /\ ncalls' = ncalls + 1
  /\ UNCHANGED <<_bitmodels, _lvec, _p0vec, _fvec, _rand, hists, ret>>

\* the rejected call made to Reset the histograms before it returns
TestIllegalResets ==
  /\ pc = "test"
  /\ badParams(frame.lambda, frame.phase, frame.width)
  /\ ret' = <<-1>>
  /\ pc' = "idle"
  /\ frame' = NoFrame
  /\ hists' = EmptyHists
  /\ UNCHANGED <<_bitmodels, _lvec, _p0vec, _fvec, _rand, ncalls>>

\* lines 50-53: return -1
TestIllegal ==
  /\ pc = "test"
  /\ badParams(frame.lambda, frame.phase, frame.width)
  /\ ret' = <<-1>>
  /\ pc' = "idle"
  /\ frame' = NoFrame
  /\ UNCHANGED <<_bitmodels, _lvec, _p0vec, _fvec, _rand, hists, ncalls>>

\* lines 50, 54-63: the model, its best template, and rbits before setRandom
TestBegin ==
  /\ pc = "test"
  /\ ~badParams(frame.lambda, frame.phase, frame.width)
  /\ LET model == setbits(frame.lambda, frame.phase, frame.width)
         best == bestOverlap(model)
     IN  frame' = [live |-> TRUE, lambda |-> frame.lambda,
                   phase |-> frame.phase, width |-> frame.width,
                   eff |-> frame.eff, pur |-> frame.pur,
                   ntrials |-> frame.ntrials, model |-> model,
                   imod0 |-> best[1], bover0 |-> best[2],
                   imod |-> best[1], bover |-> best[2],
                   rbits |-> {}, ibit |-> 0, itrial |-> 0,
                   pos0 |-> _rand.pos, drawn |-> <<>>]
  /\ pc' = "rand1"
  /\ UNCHANGED <<_bitmodels, _lvec, _p0vec, _fvec, _rand, hists, ret, ncalls>>

\* the iteration made to draw twice and use the second value
SetRandomStepTwoDraws ==
  /\ pc \in {"rand1", "randN"}
  /\ frame.ibit < nbits
  /\ LET rval == _rand.stream[((_rand.pos + 1) % Len(_rand.stream)) + 1]
     IN  frame' = [frame EXCEPT
                     !.rbits = SetRandomBit(frame.model, @, frame.ibit, rval,
                                            frame.eff, frame.pur),
                     !.ibit = @ + 1,
                     !.drawn = Append(@, rval)]
  /\ _rand' = [_rand EXCEPT !.pos = @ + 2]
  /\ pc' = IF frame.ibit + 1 < nbits THEN pc
           ELSE IF pc = "rand1" THEN "match1" ELSE "matchN"
  /\ UNCHANGED <<_bitmodels, _lvec, _p0vec, _fvec, hists, ret, ncalls>>

\* one iteration of setRandom's loop (line 64 or line 77)
SetRandomStep ==
  /\ pc \in {"rand1", "randN"}
  /\ frame.ibit < nbits
  /\ frame' = [frame EXCEPT
                 !.rbits = SetRandomBit(frame.model, @, frame.ibit, Uniform,
                                        frame.eff, frame.pur),
                 !.ibit = @ + 1,
                 !.drawn = Append(@, Uniform)]
  /\ _rand' = [_rand EXCEPT !.pos = @ + 1]
  /\ pc' = IF frame.ibit + 1 < nbits THEN pc
           ELSE IF pc = "rand1" THEN "match1" ELSE "matchN"
  /\ UNCHANGED <<_bitmodels, _lvec, _p0vec, _fvec, hists, ret, ncalls>>

\* lines 66-74: the best template of the random profile; the Resets
MatchProfile ==
  /\ pc = "match1"
  /\ LET best == bestOverlap(frame.rbits)
     IN  frame' = [frame EXCEPT !.imod = best[1], !.bover = best[2], !.itrial = 0]
  /\ hists' = EmptyHists
  /\ pc' = "loop"
  /\ UNCHANGED <<_bitmodels, _lvec, _p0vec, _fvec, _rand, ret, ncalls>>

\* line 76-77: the loop test holds; setRandom is entered
TrialBegin ==
  /\ pc = "loop"
  /\ frame.itrial < frame.ntrials
  /\ frame' = [frame EXCEPT !.ibit = 0, !.drawn = <<>>]
  /\ pc' = "randN"
  /\ UNCHANGED <<_bitmodels, _lvec, _p0vec, _fvec, _rand, hists, ret, ncalls>>

\* the trial made to keep its profile as a further template
TrialMatchStoresProfile ==
  /\ pc = "matchN"
  /\ LET best == bestOverlap(frame.rbits)
         imod == best[1]
     IN  /\ frame' = [frame EXCEPT !.imod = imod, !.bover = best[2],
                                   !.itrial = @ + 1]
         /\ hists' = [hover |-> Append(hists.hover, best[2]),
                      hmod |-> Append(hists.hmod, imod),
                      hlambda |-> Append(hists.hlambda, _lvec[imod + 1]),
                      hphase |-> Append(hists.hphase, _p0vec[imod + 1]),
                      hwidth |-> Append(hists.hwidth, _fvec[imod + 1]),
                      hdur |-> hists.hdur + 1]
         /\ _bitmodels' = Append(_bitmodels, frame.rbits)
         /\ _lvec' = Append(_lvec, _lvec[imod + 1])
         /\ _p0vec' = Append(_p0vec, _p0vec[imod + 1])
         /\ _fvec' = Append(_fvec, _fvec[imod + 1])
  /\ pc' = "loop"
  /\ UNCHANGED <<_rand, ret, ncalls>>

\* lines 78-87: the best template of the trial's profile; the Fills
TrialMatch ==
  /\ pc = "matchN"
  /\ LET best == bestOverlap(frame.rbits)
         imod == best[1]
     IN  /\ frame' = [frame EXCEPT !.imod = imod, !.bover = best[2],
                                   !.itrial = @ + 1]
         /\ hists' = [hover |-> Append(hists.hover, best[2]),
                      hmod |-> Append(hists.hmod, imod),
                      hlambda |-> Append(hists.hlambda, _lvec[imod + 1]),
                      hphase |-> Append(hists.hphase, _p0vec[imod + 1]),
                      hwidth |-> Append(hists.hwidth, _fvec[imod + 1]),
                      hdur |-> hists.hdur + 1]
  /\ pc' = "loop"
  /\ UNCHANGED <<_bitmodels, _lvec, _p0vec, _fvec, _rand, ret, ncalls>>

\* line 76, 89: the loop test fails; return 0
TestReturn ==
  /\ pc = "loop"
  /\ frame.itrial >= frame.ntrials
  /\ ret' = <<0>>
  /\ pc' = "idle"
  /\ frame' = NoFrame
  /\ UNCHANGED <<_bitmodels, _lvec, _p0vec, _fvec, _rand, hists, ncalls>>

\* the object the constructor leaves (lines 92-125): the histograms booked
\* and empty, the generator at the start of its stream, the templates built
Init ==
  /\ _bitmodels = BuiltModels
  /\ _lvec = BuiltLambda
  /\ _p0vec = BuiltPhase
  /\ _fvec = BuiltWidth
  /\ _rand \in [stream : Streams, pos : {0}]
  /\ hists = EmptyHists
  /\ pc = "idle"
  /\ frame = NoFrame
  /\ ret = <<>>
  /\ ncalls = 0

Next ==
  \/ \E p \in TestParams, ntrials \in 0 .. MaxTrials :
       TestCall(StepValue(p[1]), StepValue(p[2]), StepValue(p[3]),
                p[4], p[5], ntrials)
  \/ TestIllegal
  \/ TestBegin
  \/ SetRandomStep
  \/ MatchProfile
  \/ TrialBegin
  \/ TrialMatch
  \/ TestReturn

Spec == Init /\ [][Next]_vars

(***************************************************************************)
(* bestOverlap called on its own.  It is a public method that reads        *)
(* nothing but _bitmodels, so it is also run against small libraries of    *)
(* any content, the empty one included.                                    *)
(***************************************************************************)

\* the most templates of a small library
MaxLib == 3

\* bit vectors for the small libraries and the observations
Patterns == { {}, 0 .. nbits - 1, {0}, 1 .. nbits - 1, 0 .. 17 }

BestOverlapCall(test) ==
  /\ pc = "idle"
  /\ LET best == bestOverlap(test)
     IN  frame' = [live |-> TRUE, test |-> test, imod |-> best[1],
                   bover |-> best[2]]
  /\ pc' = "returned"
  /\ UNCHANGED <<_bitmodels, _lvec, _p0vec, _fvec, _rand, hists, ret, ncalls>>

InitMatch ==
  /\ _bitmodels \in UNION {[1 .. n -> Patterns] : n \in 0 .. MaxLib}
  /\ _lvec = [k \in DOMAIN _bitmodels |-> 0]
  /\ _p0vec = [k \in DOMAIN _bitmodels |-> 0]
  /\ _fvec = [k \in DOMAIN _bitmodels |-> 0]
  /\ _rand = [stream |-> <<Half>>, pos |-> 0]
  /\ hists = EmptyHists
  /\ pc = "idle"
  /\ frame = NoFrame
  /\ ret = <<>>
  /\ ncalls = 0

NextMatch == \E test \in Patterns : BestOverlapCall(test)

SpecMatch == InitMatch /\ [][NextMatch]_vars

(***************************************************************************)
(* test() called with the parameters of a template of the library, up to   *)
(* the search for the model's best template (line 59).                     *)
(***************************************************************************)

NextSelf ==
  \/ \E k \in DOMAIN _bitmodels :
       TestCall(_lvec[k], _p0vec[k], _fvec[k], One, One, 0)
  \/ TestBegin

InitSelf == Init /\ _rand.stream = <<Quarter, 3 * Quarter>>

SpecSelf == InitSelf /\ [][NextSelf]_vars

(***************************************************************************)
(* Properties.                                                             *)
(***************************************************************************)

AllBits == 0 .. nbits - 1

\* the number of bit positions where two bit vectors differ
Hamming(a, b) == Cardinality({i \in AllBits : (i \in a) # (i \in b)})

Library == <<_bitmodels, _lvec, _p0vec, _fvec>>

\* the library holds a template with exactly these float parameters
HasTemplate(lambda, phase, width) ==
  \E k \in DOMAIN _bitmodels :
    _lvec[k] = lambda /\ _p0vec[k] = phase /\ _fvec[k] = width

\* the float of every step 0 .. nbits
StepTable == [i \in 0 .. nbits |-> StepValue(i)]

\* the steps validate is asked about: beyond nbits/2 + 1 lambda > 0.5
StepRange == 0 .. nbits \div 2 + 1

\* C1: against a non-empty library bestOverlap returns as bover the least
\* Hamming distance between the observation and a template, and as index
\* the lowest index of a template at that distance, also when it is nbits.
C1_BestMatchIsFirstMinimum ==
  (pc = "returned" /\ Len(_bitmodels) > 0) =>
    LET dist == [i \in DOMAIN _bitmodels |-> Hamming(frame.test, _bitmodels[i])]
    IN  /\ \A i \in DOMAIN _bitmodels : frame.bover <= dist[i]
        /\ frame.imod + 1 \in DOMAIN _bitmodels
        /\ dist[frame.imod + 1] = frame.bover
        /\ \A i \in 1 .. frame.imod : dist[i] > frame.bover

\* three equal templates, each nbits away from the observation
C1_Witness ==
  /\ pc = "returned"
  /\ Len(_bitmodels) = 3
  /\ frame.bover = nbits
  /\ frame.imod = 0

\* C2: a bestOverlap call against an empty library fails; it does not
\* return an index and a distance.
C2_EmptyLibraryFails == ~(pc = "returned" /\ Len(_bitmodels) = 0)

\* C3: test() on the parameters of template k finds distance 0 for the
\* model, at the lowest index whose template has the bits of template k.
C3_SelfMatch ==
  pc = "rand1" =>
    \A k \in DOMAIN _bitmodels :
      (frame.lambda = _lvec[k] /\ frame.phase = _p0vec[k] /\ frame.width = _fvec[k])
        => /\ frame.bover0 = 0
           /\ frame.imod0 + 1 <= k
           /\ _bitmodels[frame.imod0 + 1] = _bitmodels[k]
           /\ \A j \in 1 .. frame.imod0 : _bitmodels[j] # _bitmodels[k]

\* a template whose bits an earlier template has too
C3_Witness ==
  /\ pc = "rand1"
  /\ frame.bover0 = 0
  /\ \E k \in DOMAIN _bitmodels :
       /\ frame.lambda = _lvec[k] /\ frame.phase = _p0vec[k] /\ frame.width = _fvec[k]
       /\ frame.imod0 + 1 < k

\* the parameter triples of the templates
TemplateParams == {<<_lvec[k], _p0vec[k], _fvec[k]>> : k \in DOMAIN _bitmodels}

\* C4 as stated: the library holds a template for every triple of steps
\* that validate accepts.
C4_EveryValidTripleHasTemplate ==
  pc = "idle" =>
    LET have == TemplateParams
    IN  \A il \in StepRange, ip \in StepRange, iw \in StepRange :
          ~badParams(StepTable[il], StepTable[ip], StepTable[iw])
            => <<StepTable[il], StepTable[ip], StepTable[iw]>> \in have

\* C4 amended: the library holds a template for every triple of steps that
\* validate accepts with il <= nbits/2 - 1 and iw <= il - 2.
C4_ValidTripleBelowBoundsHasTemplate ==
  pc = "idle" =>
    LET have == TemplateParams
    IN  \A il \in StepRange, ip \in StepRange, iw \in StepRange :
          (/\ ~badParams(StepTable[il], StepTable[ip], StepTable[iw])
           /\ il <= nbits \div 2 - 1
           /\ iw <= il - 2)
            => <<StepTable[il], StepTable[ip], StepTable[iw]>> \in have

\* the constructed library, with the template of the last triple
C4_Witness ==
  /\ ncalls = 0
  /\ ~badParams(StepTable[17], StepTable[17], StepTable[15])
  /\ HasTemplate(StepTable[17], StepTable[17], StepTable[15])

RECURSIVE SumTerms(_, _)
SumTerms(il, last) ==
  IF il > last THEN 0 ELSE (il + 1) * (il - 2) + SumTerms(il + 1, last)

\* C5: the library has sum over il = 2 .. 17 of (il+1)*(il-2) = 1600
\* templates, none of wavelength step 2, and the four vectors are equally long.
C5_LibrarySize ==
  /\ Len(_bitmodels) = SumTerms(2, 17)
  /\ Len(_bitmodels) = 1600
  /\ Len(_lvec) = Len(_bitmodels)
  /\ Len(_p0vec) = Len(_bitmodels)
  /\ Len(_fvec) = Len(_bitmodels)
  /\ \A k \in DOMAIN _lvec : _lvec[k] # StepTable[2]

\* the constructed object: its first template is of step 3, its last of 17
C5_Witness ==
  /\ ncalls = 0
  /\ Len(_bitmodels) = 1600
  /\ _lvec[1] = StepTable[3]
  /\ _lvec[1600] = StepTable[17]

\* setRandom has just run on frame.model with eff = 0 and pur = 0
ZeroEffPurDone ==
  /\ pc \in {"match1", "matchN"}
  /\ frame.eff = 0
  /\ frame.pur = 0

\* C6 as stated: with eff = 0 and pur = 0 setRandom leaves the complement
\* of the model, whatever the draws in [0,1).
C6_ZeroEffPurComplements ==
  ZeroEffPurDone => frame.rbits = AllBits \ frame.model

\* C6 amended: with eff = 0 and pur = 0 setRandom leaves the complement of
\* the model when every draw of the call is greater than 0.
C6_ZeroEffPurComplementsPositiveDraws ==
  (ZeroEffPurDone /\ \A i \in DOMAIN frame.drawn : frame.drawn[i] > 0)
    => frame.rbits = AllBits \ frame.model

C6_Witness ==
  /\ ZeroEffPurDone
  /\ Len(frame.drawn) = nbits
  /\ \A i \in DOMAIN frame.drawn : frame.drawn[i] > 0
  /\ frame.model # {}
  /\ frame.rbits # {}

\* C7: a step of setRandom makes the k-th draw of the call and decides bit
\* k-1 with it, leaving the other bits; a setRandom call ends after nbits
\* draws; nothing else draws; when test() returns 0 the stream stands
\* nbits*(ntrials+1) draws beyond where the call found it.
C7_OneDrawPerBitInOrder ==
  [][ /\ pc \in {"rand1", "randN"} =>
           LET k == Len(frame.drawn) + 1
               rval == _rand.stream[(_rand.pos % Len(_rand.stream)) + 1]
           IN  /\ _rand'.pos = _rand.pos + 1
               /\ frame'.drawn = Append(frame.drawn, rval)
               /\ k <= nbits
               /\ \A i \in AllBits \ {k - 1} :
                    (i \in frame'.rbits) = (i \in frame.rbits)
               /\ (k - 1 \in frame'.rbits) =
                    IF k - 1 \in frame.model THEN rval < frame.eff
                    ELSE rval > frame.pur
               /\ (pc' \in {"match1", "matchN"}) = (k = nbits)
      /\ pc \notin {"rand1", "randN"} => _rand' = _rand
      /\ (pc = "loop" /\ pc' = "idle") =>
           /\ ret' = <<0>>
           /\ _rand.pos = frame.pos0 + nbits * (frame.ntrials + 1) ]_vars

\* a call with one trial about to return, 2 * nbits draws on
C7_Witness ==
  /\ pc = "loop"
  /\ frame.ntrials = 1
  /\ frame.itrial = 1
  /\ frame.pos0 > 0
  /\ _rand.pos = frame.pos0 + 2 * nbits

\* C8: a test() call whose parameters badParams rejects returns -1 in its
\* first step and leaves the library, the stream and the histograms as
\* they were; only a call whose parameters badParams accepts, and with
\* those very parameters, goes on to the model and the search.
C8_IllegalParamsReturnAtOnce ==
  [][ pc = "test" =>
        IF badParams(frame.lambda, frame.phase, frame.width)
        THEN /\ ret' = <<-1>>
             /\ pc' = "idle"
             /\ frame' = NoFrame
             /\ UNCHANGED <<Library, _rand, hists>>
        ELSE /\ pc' = "rand1"
             /\ frame'.lambda = frame.lambda
             /\ frame'.phase = frame.phase
             /\ frame'.width = frame.width ]_vars

\* a rejected call after one that filled the histograms
C8_Witness ==
  /\ pc = "idle"
  /\ ret = <<-1>>
  /\ ncalls = 2
  /\ _rand.pos = 2 * nbits
  /\ Len(hists.hover) = 1

\* C9: no step changes the library.
C9_LibraryNeverChanges == [][UNCHANGED Library]_vars

\* two finished calls, the second with a trial, and the library as built
C9_Witness ==
  /\ pc = "idle"
  /\ ret = <<0>>
  /\ ncalls = 2
  /\ Len(hists.hmod) = 1
  /\ _bitmodels = BuiltModels

\* C10: every template of the library has the parameters of
\* steps il, ip, iw with 2 <= il <= nbits/2, 0 <= ip <= il, 1 <= iw <= il-1,
\* and badParams accepts them.
C10_TemplatesAreValid ==
  pc = "idle" =>
    \A k \in DOMAIN _bitmodels :
      /\ \E il \in 2 .. nbits \div 2 :
           /\ _lvec[k] = StepTable[il]
           /\ \E ip \in 0 .. il : _p0vec[k] = StepTable[ip]
           /\ \E iw \in 1 .. il - 1 : _fvec[k] = StepTable[iw]
      /\ ~badParams(_lvec[k], _p0vec[k], _fvec[k])

\* the constructed library, with a template of the widest width
C10_Witness ==
  /\ ncalls = 0
  /\ \E k \in DOMAIN _bitmodels :
       _lvec[k] = StepTable[17] /\ _fvec[k] = StepTable[15]
====
